---- MODULE Spec2Model ----
(***************************************************************************)
(* The sorted skiplist of src/src/t_sl.c and its six commands (SLADD,      *)
(* SLREM, SLALL, SLRANGE, SLSEARCH, SLCARD) on one key of the key table.   *)
(* Addresses are small integers, byte strings are tuples of byte codes.    *)
(***************************************************************************)
EXTENDS Integers, Sequences, FiniteSets, TLC

\* Bounds of the model.
MaxNodes == 3   \* most nodes a container holds (guard of SLADD)
MaxLevel == 2   \* cap on the tower height slRandomLevel draws
MaxPairs == 2   \* most (score, member) pairs of one SLADD
MaxScores == 3  \* most scores of one SLREM

\* Byte strings a client sends: "10", "2", "b". "10" and "2" become
\* integer-encoded and order differently as numbers (2 below 10) and as bytes
\* ("10" below "2"); "b" stays a string.
B10 == <<49, 48>>
B2 == <<50>>
Bb == <<98>>
Scores == {B10, B2, Bb}
Members == {B10, B2}

-----------------------------------------------------------------------------
\* Values (robj of type REDIS_STRING).

NULL == -1
HEADER == 0

NULLOBJ == [encoding |-> "null", ptr |-> <<>>, val |-> 0, shared |-> "no"]
createStringObject(s) == [encoding |-> "raw", ptr |-> s, val |-> 0, shared |-> "no"]
IntObject(n) == [encoding |-> "int", ptr |-> <<>>, val |-> n, shared |-> "no"]
minstring == [encoding |-> "raw", ptr |-> <<>>, val |-> 0, shared |-> "minstring"]
maxstring == [encoding |-> "raw", ptr |-> <<>>, val |-> 0, shared |-> "maxstring"]

IsDigit(c) == c \in 48..57

\* string2l: an optional '-', then digits without a leading zero ("0" itself
\* is a number, "-0" is not).
string2lOK(s) ==
    /\ Len(s) > 0
    /\ LET neg == s[1] = 45
           d == IF neg THEN Tail(s) ELSE s
       IN /\ Len(d) > 0
          /\ \A i \in 1..Len(d) : IsDigit(d[i])
          /\ d[1] # 48 \/ (Len(d) = 1 /\ ~neg)

RECURSIVE DigitsValue(_, _)
DigitsValue(d, acc) ==
    IF d = <<>> THEN acc ELSE DigitsValue(Tail(d), acc * 10 + (Head(d) - 48))

string2l(s) ==
    IF s[1] = 45 THEN 0 - DigitsValue(Tail(s), 0) ELSE DigitsValue(s, 0)

RECURSIVE Digits(_)
Digits(n) == IF n < 10 THEN <<48 + n>> ELSE Append(Digits(n \div 10), 48 + (n % 10))

\* ll2string: the decimal bytes of a long.
ll2string(n) == IF n < 0 THEN <<45>> \o Digits(0 - n) ELSE Digits(n)

\* tryObjectEncoding: a raw string that reads as a long becomes integer-encoded.
tryObjectEncoding(o) ==
    IF o.encoding = "raw" /\ o.shared = "no" /\ Len(o.ptr) <= 21 /\ string2lOK(o.ptr)
    THEN IntObject(string2l(o.ptr))
    ELSE o

\* The bytes of a value, as addReplyBulk sends them.
ObjectBytes(o) == IF o.encoding = "int" THEN ll2string(o.val) ELSE o.ptr

RECURSIVE memcmp(_, _, _, _)
memcmp(a, b, i, n) ==
    IF i > n THEN 0
    ELSE IF a[i] < b[i] THEN -1
    ELSE IF a[i] > b[i] THEN 1
    ELSE memcmp(a, b, i + 1, n)

\* compareStringObjects: byte-wise on the decoded strings, the shorter string
\* first on a common prefix; the shared range sentinels lie below and above
\* every value.
compareStringObjects(a, b) ==
    IF a.shared # "no" \/ b.shared # "no" THEN
        IF a.shared = b.shared THEN 0
        ELSE IF a.shared = "minstring" \/ b.shared = "maxstring" THEN -1
        ELSE 1
    ELSE
        LET astr == ObjectBytes(a)
            bstr == ObjectBytes(b)
            minlen == IF Len(astr) < Len(bstr) THEN Len(astr) ELSE Len(bstr)
            cmp == memcmp(astr, bstr, 1, minlen)
        IN IF cmp = 0 THEN Len(astr) - Len(bstr) ELSE cmp

equalStringObjects(a, b) ==
    IF a.encoding = "int" /\ b.encoding = "int" THEN a.val = b.val
    ELSE compareStringObjects(a, b) = 0

\* The narrowing of a long to the int that slCmp returns, two's complement.
\* The widths are scaled down (a 16-bit int in a wider long) to fit TLC's
\* integers.
INT_MODULUS == 65536
LongToInt(d) == ((d + (INT_MODULUS \div 2)) % INT_MODULUS) - (INT_MODULUS \div 2)

slCmp(score1, score2) ==
    IF score1 = NULLOBJ /\ score2 = NULLOBJ THEN 0
    ELSE IF score1 = NULLOBJ THEN 1
    ELSE IF score2 = NULLOBJ THEN -1
    ELSE IF score1.encoding = "int" /\ score2.encoding = "int"
         THEN LongToInt(score1.val - score2.val)
         ELSE compareStringObjects(score1, score2)

-----------------------------------------------------------------------------
\* The skiplist: node[HEADER] is the header, node[1..MaxNodes] the heap slots.

Levels == 0..(MaxLevel - 1)
NodeIds == 1..MaxNodes

FreeSlot == [score |-> NULLOBJ, obj |-> NULLOBJ, forward |-> <<>>, backward |-> NULL]

slCreateNode(level, score, obj) ==
    [score |-> score, obj |-> obj, forward |-> [i \in 0..(level - 1) |-> NULL],
     backward |-> NULL]

slCreate ==
    [level |-> 1, length |-> 0, tail |-> NULL,
     node |-> [id \in {HEADER} \cup NodeIds |->
                 IF id = HEADER THEN slCreateNode(MaxLevel, NULLOBJ, NULLOBJ)
                 ELSE FreeSlot]]

\* The address zmalloc returns for a new node: a free slot.
zmalloc(sl) == CHOOSE id \in NodeIds :
    /\ sl.node[id] = FreeSlot
    /\ \A other \in NodeIds : sl.node[other] = FreeSlot => id <= other

Fwd(sl, x, i) == sl.node[x].forward[i]

\* slInsert, lines 401-412: the walk of one level, then the descent that
\* fills update[].
RECURSIVE slInsertWalk(_, _, _, _, _)
slInsertWalk(sl, x, i, score, obj) ==
    LET f == Fwd(sl, x, i) IN
    IF f = NULL THEN x
    ELSE LET cmp == slCmp(sl.node[f].score, score) IN
         IF cmp < 0 \/ (cmp = 0 /\ slCmp(sl.node[f].obj, obj) < 0)
         THEN slInsertWalk(sl, f, i, score, obj)
         ELSE x

RECURSIVE slInsertUpdate(_, _, _, _, _, _)
slInsertUpdate(sl, x, i, score, obj, update) ==
    IF i < 0 THEN update
    ELSE LET y == slInsertWalk(sl, x, i, score, obj)
         IN slInsertUpdate(sl, y, i - 1, score, obj, [update EXCEPT ![i] = y])

\* slInsert, lines 414-436: the splice of the new node x, of the height that
\* slRandomLevel drew, behind the predecessors the descent left in walked.
slInsertSplice(sl, score, obj, level, walked, x) ==
    LET update == [i \in Levels |->
                     IF i >= sl.level /\ i < level THEN HEADER ELSE walked[i]]
        xforward == [i \in 0..(level - 1) |-> Fwd(sl, update[i], i)]
        xnode == [score |-> score, obj |-> obj, forward |-> xforward,
                  backward |-> IF update[0] = HEADER THEN NULL ELSE update[0]]
        relink(id) ==
            LET n == sl.node[id] IN
            [n EXCEPT
               !.forward = [i \in DOMAIN n.forward |->
                              IF i < level /\ update[i] = id THEN x ELSE n.forward[i]],
               !.backward = IF xforward[0] = id THEN x ELSE n.backward]
    IN [level |-> IF level > sl.level THEN level ELSE sl.level,
        length |-> sl.length + 1,
        tail |-> IF xforward[0] = NULL THEN x ELSE sl.tail,
        node |-> [id \in DOMAIN sl.node |-> IF id = x THEN xnode ELSE relink(id)]]

slInsert(sl, score, obj, level) ==
    slInsertSplice(sl, score, obj, level,
                   slInsertUpdate(sl, HEADER, sl.level - 1, score, obj,
                                  [i \in Levels |-> NULL]),
                   zmalloc(sl))

\* slDeleteNode, lines 125-126: level shrinks while the top level is empty.
RECURSIVE slShrinkLevel(_, _)
slShrinkLevel(node, level) ==
    IF level > 1 /\ node[HEADER].forward[level - 1] = NULL
    THEN slShrinkLevel(node, level - 1)
    ELSE level

\* slDeleteNode, lines 115-124: x leaves every chain that update[] leads to.
slUnlink(sl, x, update) ==
    LET xn == sl.node[x]
        unlink(id) ==
            LET n == sl.node[id] IN
            [n EXCEPT
               !.forward = [i \in DOMAIN n.forward |->
                              IF i < sl.level /\ update[i] = id /\ n.forward[i] = x
                              THEN xn.forward[i] ELSE n.forward[i]],
               !.backward = IF xn.forward[0] = id THEN xn.backward ELSE n.backward]
    IN [sl EXCEPT !.tail = IF xn.forward[0] # NULL THEN sl.tail ELSE xn.backward,
                  !.node = [id \in DOMAIN sl.node |-> unlink(id)]]

slLevelLength(sl) ==
    [sl EXCEPT !.level = slShrinkLevel(sl.node, sl.level), !.length = sl.length - 1]

\* Faulty variants of slDeleteNode, each leaving out one of its steps: the
\* length-- of line 127, the tail update of line 123, the level-- of lines
\* 125-126, and the unlinking above level 0 of lines 115-119.
slDeleteNodeKeepsLength(sl, x, update) ==
    [slLevelLength(slUnlink(sl, x, update)) EXCEPT !.length = sl.length]

slDeleteNodeKeepsTail(sl, x, update) ==
    [slLevelLength(slUnlink(sl, x, update)) EXCEPT !.tail = sl.tail]

slDeleteNodeKeepsLevel(sl, x, update) ==
    [slLevelLength(slUnlink(sl, x, update)) EXCEPT !.level = sl.level]

slDeleteNodeLevel0Only(sl, x, update) ==
    [slUnlink([sl EXCEPT !.level = 1], x, update)
        EXCEPT !.level = sl.level, !.length = sl.length - 1]

slDeleteNode(sl, x, update) == slLevelLength(slUnlink(sl, x, update))

\* slFreeNode: the slot is free again.
slFreeNode(sl, x) == [sl EXCEPT !.node[x] = FreeSlot]

\* slDelete, lines 444-451.
RECURSIVE slDeleteWalk(_, _, _, _, _)
slDeleteWalk(sl, x, i, score, obj) ==
    LET f == Fwd(sl, x, i) IN
    IF f # NULL
       /\ (\/ slCmp(sl.node[f].score, score) < 0
           \/ (/\ slCmp(sl.node[f].score, score) = 0
               /\ compareStringObjects(sl.node[f].obj, obj) < 0))
    THEN slDeleteWalk(sl, f, i, score, obj)
    ELSE x

RECURSIVE slDeleteUpdate(_, _, _, _, _, _)
slDeleteUpdate(sl, x, i, score, obj, update) ==
    IF i < 0 THEN update
    ELSE LET y == slDeleteWalk(sl, x, i, score, obj)
         IN slDeleteUpdate(sl, y, i - 1, score, obj, [update EXCEPT ![i] = y])

\* slDelete, lines 454-460: the list afterwards and the value returned.
slDeleteFound(sl, score, obj, update, x) ==
    IF x # NULL /\ slCmp(score, sl.node[x].score) = 0
       /\ equalStringObjects(sl.node[x].obj, obj)
    THEN [sl |-> slFreeNode(slDeleteNode(sl, x, update), x), ret |-> 1]
    ELSE [sl |-> sl, ret |-> 0]

slDeleteFrom(sl, score, obj, update) ==
    slDeleteFound(sl, score, obj, update, Fwd(sl, update[0], 0))

slDelete(sl, score, obj) ==
    slDeleteFrom(sl, score, obj,
                 slDeleteUpdate(sl, HEADER, sl.level - 1, score, obj,
                                [i \in Levels |-> NULL]))

\* slDeleteScore, lines 467-473.
RECURSIVE slDeleteScoreWalk(_, _, _, _)
slDeleteScoreWalk(sl, x, i, score) ==
    LET f == Fwd(sl, x, i) IN
    IF f # NULL /\ slCmp(sl.node[f].score, score) < 0
    THEN slDeleteScoreWalk(sl, f, i, score)
    ELSE x

RECURSIVE slDeleteScoreUpdate(_, _, _, _, _)
slDeleteScoreUpdate(sl, x, i, score, update) ==
    IF i < 0 THEN update
    ELSE LET y == slDeleteScoreWalk(sl, x, i, score)
         IN slDeleteScoreUpdate(sl, y, i - 1, score, [update EXCEPT ![i] = y])

\* slDeleteScore, lines 477-483: one update vector serves every removal.
RECURSIVE slDeleteScoreLoop(_, _, _, _, _)
slDeleteScoreLoop(sl, x, score, update, deleted) ==
    IF x # NULL /\ slCmp(score, sl.node[x].score) = 0
    THEN slDeleteScoreLoop(slFreeNode(slDeleteNode(sl, x, update), x),
                           Fwd(sl, x, 0), score, update, deleted + 1)
    ELSE [sl |-> sl, ret |-> deleted]

slDeleteScoreFrom(sl, score, update) ==
    slDeleteScoreLoop(sl, Fwd(sl, update[0], 0), score, update, 0)

slDeleteScore(sl, score) ==
    slDeleteScoreFrom(sl, score,
                      slDeleteScoreUpdate(sl, HEADER, sl.level - 1, score,
                                          [i \in Levels |-> NULL]))

\* slSearchSmallestNode, lines 246-249: the walk back from the node found.
RECURSIVE slSearchBacktrack(_, _, _)
slSearchBacktrack(sl, x, score) ==
    IF sl.node[x].backward # NULL /\ slCmp(sl.node[x].score, score) > 0
    THEN slSearchBacktrack(sl, sl.node[x].backward, score)
    ELSE x

\* slSearchSmallestNode, lines 237-257, from node x on level i.
RECURSIVE slSearchDescend(_, _, _, _)
slSearchDescend(sl, x, i, score) ==
    IF i < 0 THEN NULL
    ELSE LET f == Fwd(sl, x, i) IN
         IF f = NULL THEN slSearchDescend(sl, x, i - 1, score)
         ELSE LET cmp == slCmp(sl.node[f].score, score) IN
              IF cmp < 0 THEN slSearchDescend(sl, f, i, score)
              ELSE IF cmp = 0 THEN slSearchBacktrack(sl, f, score)
              ELSE slSearchDescend(sl, x, i - 1, score)

slSearchSmallestNode(sl, score) == slSearchDescend(sl, HEADER, sl.level - 1, score)

\* The value of an int that was never assigned.
UNSET == 2
\* The outcome of reading a field through a null pointer.
SEGV == -2

\* slRangeSmallestNode, lines 285-290: the walk back over the equal scores.
RECURSIVE slRangeSmallestBacktrack(_, _, _)
slRangeSmallestBacktrack(sl, range, x) ==
    IF ~range.minex /\ sl.node[x].backward # NULL /\ sl.node[x].backward # HEADER
       /\ slCmp(sl.node[sl.node[x].backward].score, range.min) = 0
    THEN slRangeSmallestBacktrack(sl, range, sl.node[x].backward)
    ELSE x

\* slRangeSmallestNode, lines 275-303, from node x on level i: the node
\* returned and what *foundexactvalue holds afterwards.
RECURSIVE slRangeSmallestDescend(_, _, _, _)
slRangeSmallestDescend(sl, range, x, i) ==
    IF i < 0 THEN [ret |-> NULL, foundexactvalue |-> UNSET]
    ELSE LET f == Fwd(sl, x, i) IN
         IF f = NULL THEN slRangeSmallestDescend(sl, range, x, i - 1)
         ELSE LET cmp == slCmp(sl.node[f].score, range.min) IN
              IF cmp < 0 THEN slRangeSmallestDescend(sl, range, f, i)
              ELSE IF cmp = 0
              THEN [ret |-> slRangeSmallestBacktrack(sl, range, f), foundexactvalue |-> 1]
              ELSE IF i = 0 /\ cmp > 0 THEN [ret |-> f, foundexactvalue |-> 0]
              ELSE slRangeSmallestDescend(sl, range, x, i - 1)

slRangeSmallestNode(sl, range) ==
    IF Fwd(sl, HEADER, 0) = NULL THEN [ret |-> SEGV, foundexactvalue |-> UNSET]
    ELSE IF slCmp(sl.node[Fwd(sl, HEADER, 0)].score, range.max) > 0
    THEN [ret |-> NULL, foundexactvalue |-> UNSET]
    ELSE slRangeSmallestDescend(sl, range, HEADER, sl.level - 1)

\* slRangeLowEnd, lines 314-323; foundexactvalue is what the flag reads as.
RECURSIVE slRangeLowEndLoop(_, _, _, _)
slRangeLowEndLoop(sl, range, smallest, foundexactvalue) ==
    IF range.minex /\ foundexactvalue # 0
    THEN IF smallest = NULL THEN SEGV
         ELSE IF slCmp(sl.node[smallest].score, range.min) = 0
         THEN IF Fwd(sl, smallest, 0) = NULL THEN NULL
              ELSE slRangeLowEndLoop(sl, range, Fwd(sl, smallest, 0), foundexactvalue)
         ELSE smallest
    ELSE smallest

\* slRangeLowEnd; garbage is what the unassigned local happens to hold.
slRangeLowEndFrom(sl, range, r, garbage) ==
    IF r.ret = SEGV THEN SEGV
    ELSE slRangeLowEndLoop(sl, range, r.ret,
                           IF r.foundexactvalue = UNSET THEN garbage
                           ELSE r.foundexactvalue)

slRangeLowEnd(sl, range, garbage) ==
    slRangeLowEndFrom(sl, range, slRangeSmallestNode(sl, range), garbage)

\* slRangeLargestNode, lines 337-376, from node x on level i.
RECURSIVE slRangeLargestDescend(_, _, _, _)
slRangeLargestDescend(sl, range, x, i) ==
    IF i < 0 THEN [ret |-> NULL, foundexactvalue |-> UNSET]
    ELSE LET f == Fwd(sl, x, i) IN
         IF f = NULL THEN slRangeLargestDescend(sl, range, x, i - 1)
         ELSE LET cmp == slCmp(sl.node[f].score, range.max) IN
              IF cmp < 0 THEN slRangeLargestDescend(sl, range, f, i)
              ELSE IF range.maxex /\ cmp = 0 THEN [ret |-> f, foundexactvalue |-> 1]
              ELSE IF ~range.maxex /\ cmp = 0
              THEN IF Fwd(sl, f, i) # NULL
                      /\ slCmp(sl.node[Fwd(sl, f, i)].score, range.max) = 0
                   THEN slRangeLargestDescend(sl, range, f, i)
                   ELSE IF i = 0 THEN [ret |-> f, foundexactvalue |-> 1]
                   ELSE slRangeLargestDescend(sl, range, x, i - 1)
              ELSE IF cmp > 0 /\ i = 0 THEN [ret |-> f, foundexactvalue |-> 0]
              ELSE slRangeLargestDescend(sl, range, x, i - 1)

slRangeLargestNode(sl, range) ==
    IF sl.tail = NULL THEN [ret |-> SEGV, foundexactvalue |-> UNSET]
    ELSE IF slCmp(sl.node[sl.tail].score, range.max) < 0
    THEN [ret |-> sl.tail, foundexactvalue |-> UNSET]
    ELSE slRangeLargestDescend(sl, range, HEADER, sl.level - 1)

\* slRangeHighEnd, lines 382-390; the flag starts as 0 here.
RECURSIVE slRangeHighEndLoop(_, _, _, _)
slRangeHighEndLoop(sl, range, largest, foundexactvalue) ==
    IF range.maxex /\ foundexactvalue # 0
    THEN IF largest = NULL THEN SEGV
         ELSE IF slCmp(sl.node[largest].score, range.max) = 0
         THEN IF sl.node[largest].backward = NULL THEN NULL
              ELSE slRangeHighEndLoop(sl, range, sl.node[largest].backward,
                                      foundexactvalue)
         ELSE largest
    ELSE largest

slRangeHighEndFrom(sl, range, r) ==
    IF r.ret = SEGV THEN SEGV
    ELSE slRangeHighEndLoop(sl, range, r.ret,
                            IF r.foundexactvalue = UNSET THEN 0 ELSE r.foundexactvalue)

slRangeHighEnd(sl, range) == slRangeHighEndFrom(sl, range, slRangeLargestNode(sl, range))

\* slParseRangeItem: the bound and its exclusivity, or an error.
slParseRangeItem(item) ==
    IF item # <<>> /\ item[1] = 43
    THEN IF Len(item) # 1 THEN [ok |-> FALSE, dest |-> NULLOBJ, ex |-> FALSE]
         ELSE [ok |-> TRUE, dest |-> maxstring, ex |-> FALSE]
    ELSE IF item # <<>> /\ item[1] = 45
    THEN IF Len(item) # 1 THEN [ok |-> FALSE, dest |-> NULLOBJ, ex |-> FALSE]
         ELSE [ok |-> TRUE, dest |-> minstring, ex |-> FALSE]
    ELSE IF item # <<>> /\ item[1] = 40
    THEN [ok |-> TRUE, dest |-> createStringObject(Tail(item)), ex |-> TRUE]
    ELSE IF item # <<>> /\ item[1] = 91
    THEN [ok |-> TRUE, dest |-> createStringObject(Tail(item)), ex |-> FALSE]
    ELSE [ok |-> TRUE, dest |-> createStringObject(item), ex |-> FALSE]

\* slParseRange on two raw arguments.
slParseRangeItems(lo, hi) ==
    [ok |-> lo.ok /\ hi.ok, min |-> lo.dest, minex |-> lo.ex,
     max |-> hi.dest, maxex |-> hi.ex]

slParseRange(min, max) ==
    IF min.encoding = "int" \/ max.encoding = "int"
    THEN [ok |-> FALSE, min |-> NULLOBJ, minex |-> FALSE, max |-> NULLOBJ, maxex |-> FALSE]
    ELSE slParseRangeItems(slParseRangeItem(min.ptr), slParseRangeItem(max.ptr))

\* The nodes on the level-0 chain from x on.
RECURSIVE slChain(_, _)
slChain(sl, x) == IF x = NULL THEN <<>> ELSE <<x>> \o slChain(sl, Fwd(sl, x, 0))

\* The addresses zmalloc hands out carry no meaning: the code only tests them
\* for identity. Between commands the model names the nodes by their rank on
\* the level-0 chain (the free slots after them), so that two heaps that differ
\* by a renaming of addresses are one state.
slRenameBy(sl, order) ==
    LET live == {order[k] : k \in 1..Len(order)}
        rank(id) == IF id \in live
                    THEN CHOOSE k \in 1..Len(order) : order[k] = id
                    ELSE Len(order) + Cardinality({f \in NodeIds \ live : f <= id})
        ren(p) == IF p \in NodeIds THEN rank(p) ELSE p
        old(k) == IF k = HEADER THEN HEADER ELSE CHOOSE id \in NodeIds : rank(id) = k
        moved(n) == [n EXCEPT !.forward = [i \in DOMAIN n.forward |-> ren(n.forward[i])],
                              !.backward = ren(n.backward)]
    IN [sl EXCEPT !.tail = ren(sl.tail),
                  !.node = [k \in DOMAIN sl.node |-> moved(sl.node[old(k)])]]

slRename(sl) == slRenameBy(sl, slChain(sl, Fwd(sl, HEADER, 0)))

-----------------------------------------------------------------------------
\* The key table (one key), the last command and the replies it sent.

VARIABLES db, cmd, reply
vars == <<db, cmd, reply>>

KEY == 1

\* createSkiplistObject: a REDIS_LIST value of encoding REDIS_ENCODING_SKIPLIST.
createSkiplistObject == [type |-> "list", encoding |-> "skiplist", ptr |-> slCreate]

\* A value of another type at the key: a string that SET stored.
createStringValue == [type |-> "string", encoding |-> "raw", ptr |-> B2]

lookupKey(d, key) == IF key \in DOMAIN d THEN d[key] ELSE NULLOBJ
dbAdd(d, key, o) == [k \in DOMAIN d \cup {key} |-> IF k = key THEN o ELSE d[k]]
dbDelete(d, key) == [k \in DOMAIN d \ {key} |-> d[k]]
dbStore(d, key, sl) == [d EXCEPT ![key].ptr = slRename(sl)]

\* Replies.
syntaxerr == [type |-> "error", n |-> 0, bulk |-> <<>>, err |-> "syntax error"]
wrongtypeerr == [type |-> "error", n |-> 0, bulk |-> <<>>, err |-> "wrong type"]
rangeerr == [type |-> "error", n |-> 0, bulk |-> <<>>, err |-> "min or max is not valid"]
crashed == [type |-> "crash", n |-> 0, bulk |-> <<>>, err |-> "segfault"]
emptymultibulk == [type |-> "multibulk", n |-> 0, bulk |-> <<>>, err |-> ""]
LongLongReply(n) == [type |-> "integer", n |-> n, bulk |-> <<>>, err |-> ""]
DoubleReply(n) == [type |-> "double", n |-> n, bulk |-> <<>>, err |-> ""]
MultiBulkReply(len, bulk) == [type |-> "multibulk", n |-> len, bulk |-> bulk, err |-> ""]
BulkReply(bulk) == MultiBulkReply(Len(bulk), bulk)

\* The client sends one command at a time: the next one once it has read the
\* replies to the last, and none to a server that has crashed.
NoCommand == [name |-> "none", argv |-> <<>>]
Running == cmd = NoCommand

Crashed(r) == \E i \in 1..Len(r) : r[i] = crashed

resetClient ==
    /\ cmd # NoCommand
    /\ ~Crashed(reply)
    /\ cmd' = NoCommand
    /\ reply' = <<>>
    /\ UNCHANGED db

\* sladdCommand, lines 520-531: pair j of argv, inserted with height levels[j].
sladdPair(del, score, ele, level) ==
    [sl |-> slInsert(del.sl, score, ele, level), added |-> 1 - del.ret]

sladdElement(sl, score, ele, level) ==
    sladdPair(slDelete(sl, score, ele), score, ele, level)

sladdCount(r, e) == [sl |-> e.sl, added |-> r.added + e.added]

RECURSIVE sladdLoop(_, _, _, _, _)
sladdLoop(r, argv, levels, j, numelements) ==
    IF j >= numelements THEN r
    ELSE sladdLoop(sladdCount(r, sladdElement(r.sl,
                                  tryObjectEncoding(createStringObject(argv[1 + j * 2])),
                                  tryObjectEncoding(createStringObject(argv[2 + j * 2])),
                                  levels[j + 1])),
                   argv, levels, j + 1, numelements)

\* The replies and the key table a command leaves.
Done(name, argv, d, r) ==
    /\ cmd' = [name |-> name, argv |-> argv]
    /\ db' = d
    /\ reply' = r

sladdReply(argv, d, r) ==
    Done("SLADD", argv, dbStore(d, KEY, r.sl), <<LongLongReply(r.added)>>)

sladdRun(argv, levels, d) ==
    /\ d[KEY].ptr.length + ((Len(argv) + 2) - 2) \div 2 <= MaxNodes
    /\ sladdReply(argv, d,
                  sladdLoop([sl |-> d[KEY].ptr, added |-> 0], argv, levels, 0,
                            ((Len(argv) + 2) - 2) \div 2))

\* sladdCommand, lines 510-534, on a value that is no skiplist: the wrong-type
\* error is sent and the command goes on, with sl = slobj->ptr pointing at the
\* bytes of the other value. With no pairs the loop does not run and the count 0
\* is sent after the error. With pairs, slDelete and slInsert read and write
\* through those bytes as if they were a skiplist: the process stops on a bad
\* address, or it survives and sends some count between 0 and numelements.
sladdWrongType(argv, numelements) ==
    IF numelements = 0
    THEN Done("SLADD", argv, db, <<wrongtypeerr, LongLongReply(0)>>)
    ELSE \E out \in {SEGV} \cup (0..numelements) :
            Done("SLADD", argv, db,
                 <<wrongtypeerr, IF out = SEGV THEN crashed ELSE LongLongReply(out)>>)

\* SLADD key argv[1] argv[2] ...; argc counts the verb and the key too.
sladdCommand(argv, levels) ==
    LET argc == Len(argv) + 2
        slobj == lookupKey(db, KEY)
    IN /\ Running
       /\ IF argc % 2 = 1
          THEN Done("SLADD", argv, db, <<syntaxerr>>)
          ELSE IF slobj # NULLOBJ /\ (slobj.type # "list" \/ slobj.encoding # "skiplist")
          THEN sladdWrongType(argv, (argc - 2) \div 2)
          ELSE sladdRun(argv, levels,
                        IF slobj = NULLOBJ THEN dbAdd(db, KEY, createSkiplistObject)
                        ELSE db)

\* slremCommand, lines 562-570.
slremBreak(r, deleted) == [sl |-> r.sl, deleted |-> deleted + r.ret, stop |-> r.sl.length = 0]

RECURSIVE slremLoop(_, _, _, _)
slremLoop(r, argv, i, numelements) ==
    IF i >= numelements \/ r.stop THEN r
    ELSE slremLoop(slremBreak(slDeleteScore(r.sl, createStringObject(argv[i + 1])),
                              r.deleted),
                   argv, i + 1, numelements)

slremReply(argv, r) ==
    Done("SLREM", argv,
         IF r.sl.length = 0 THEN dbDelete(db, KEY) ELSE dbStore(db, KEY, r.sl),
         <<LongLongReply(r.deleted)>>)

slremCommand(argv) ==
    LET argc == Len(argv) + 2
        slobj == lookupKey(db, KEY)
    IN /\ Running
       /\ IF argc % 2 = 0
          THEN Done("SLREM", argv, db, <<syntaxerr>>)
          ELSE IF slobj = NULLOBJ \/ slobj.type # "list" \/ slobj.encoding # "skiplist"
          THEN Done("SLREM", argv, db, <<emptymultibulk>>)
          ELSE slremReply(argv,
                          slremLoop([sl |-> slobj.ptr, deleted |-> 0, stop |-> FALSE],
                                    argv, 0, argc - 2))

\* The level-0 chain from x on: the (score, member) bulks it replies with.
RECURSIVE slallLoop(_, _, _)
slallLoop(sl, x, bulk) ==
    IF x = NULL THEN bulk
    ELSE slallLoop(sl, Fwd(sl, x, 0),
                   bulk \o <<ObjectBytes(sl.node[x].score), ObjectBytes(sl.node[x].obj)>>)

slallReply(slobj) ==
    IF slobj = NULLOBJ \/ slobj.type # "list" \/ slobj.encoding # "skiplist"
    THEN emptymultibulk
    ELSE BulkReply(slallLoop(slobj.ptr, Fwd(slobj.ptr, HEADER, 0), <<>>))

slallCommand ==
    /\ Running
    /\ Done("SLALL", <<>>, db, <<slallReply(lookupKey(db, KEY))>>)

slcardCommand ==
    LET slobj == lookupKey(db, KEY)
    IN /\ Running
       /\ Done("SLCARD", <<>>, db,
               IF slobj = NULLOBJ \/ slobj.type # "list" \/ slobj.encoding # "skiplist"
               THEN <<DoubleReply(0)>>
               ELSE <<DoubleReply(slobj.ptr.length)>>)

\* slsearchCommand, lines 715-720.
RECURSIVE slsearchLoop(_, _, _, _)
slsearchLoop(sl, x, score, bulk) ==
    IF x # NULL /\ slCmp(sl.node[x].score, score) = 0
    THEN slsearchLoop(sl, Fwd(sl, x, 0), score,
                      bulk \o <<ObjectBytes(sl.node[x].score), ObjectBytes(sl.node[x].obj)>>)
    ELSE bulk

slsearchFrom(sl, lowend, score) ==
    IF lowend = NULL THEN emptymultibulk
    ELSE BulkReply(slsearchLoop(sl, lowend, score, <<>>))

slsearchReply(slobj, score) ==
    IF slobj = NULLOBJ THEN emptymultibulk
    ELSE IF slobj.type # "list" \/ slobj.encoding # "skiplist" THEN wrongtypeerr
    ELSE slsearchFrom(slobj.ptr, slSearchSmallestNode(slobj.ptr, score), score)

slsearchCommand(arg) ==
    /\ Running
    /\ Done("SLSEARCH", <<arg>>, db,
            <<slsearchReply(lookupKey(db, KEY), createStringObject(arg))>>)

\* slrangeCommand, lines 666-671: the nodes before highend.
RECURSIVE slrangeLoop(_, _, _, _)
slrangeLoop(sl, next, highend, bulk) ==
    IF next # NULL /\ next # highend
    THEN slrangeLoop(sl, Fwd(sl, next, 0), highend,
                     bulk \o <<ObjectBytes(sl.node[next].score), ObjectBytes(sl.node[next].obj)>>)
    ELSE bulk

\* slrangeCommand, lines 647-677.
slrangeEnds(sl, lowend, highend) ==
    IF lowend = SEGV THEN crashed
    ELSE IF lowend = NULL THEN emptymultibulk
    ELSE IF highend = SEGV THEN crashed
    ELSE IF highend = NULL THEN emptymultibulk
    ELSE BulkReply(slrangeLoop(sl, lowend, highend, <<>>)
                   \o <<ObjectBytes(sl.node[highend].score),
                        ObjectBytes(sl.node[highend].obj)>>)

slrangeReply(slobj, range, garbage) ==
    IF ~range.ok THEN rangeerr
    ELSE IF slobj = NULLOBJ THEN emptymultibulk
    ELSE IF slobj.type # "list" \/ slobj.encoding # "skiplist" THEN wrongtypeerr
    ELSE slrangeEnds(slobj.ptr, slRangeLowEnd(slobj.ptr, range, garbage),
                     slRangeHighEnd(slobj.ptr, range))

slrangeCommand(min, max, garbage) ==
    /\ Running
    /\ Done("SLRANGE", <<min, max>>, db,
            <<slrangeReply(lookupKey(db, KEY),
                           slParseRange(createStringObject(min), createStringObject(max)),
                           garbage)>>)

\* SET key value, a command of another type: it stores a string at the key,
\* over whatever was there.
ok == [type |-> "status", n |-> 0, bulk |-> <<>>, err |-> "OK"]

setCommand ==
    /\ Running
    /\ Done("SET", <<>>, dbAdd(db, KEY, createStringValue), <<ok>>)

Init ==
    /\ db = <<>>
    /\ cmd = NoCommand
    /\ reply = <<>>

RECURSIVE PairArgs(_)
PairArgs(n) ==
    IF n = 0 THEN {<<>>}
    ELSE {a \o <<s, m>> : a \in PairArgs(n - 1), s \in Scores, m \in Members}

\* The arguments of SLADD: up to MaxPairs pairs, or a lone score.
SladdArgs == UNION {PairArgs(n) : n \in 0..MaxPairs} \cup {<<s>> : s \in Scores}

\* The arguments of SLREM: up to MaxScores scores.
SlremArgs == UNION {[1..n -> Scores] : n \in 0..MaxScores}

\* The heights slRandomLevel draws for the pairs of one SLADD.
slRandomLevel == 1..MaxLevel

SLADD ==
    \E argv \in SladdArgs : \E levels \in [1..(Len(argv) \div 2) -> slRandomLevel] :
        sladdCommand(argv, levels)

SLREM == \E argv \in SlremArgs : slremCommand(argv)

SLALL == slallCommand

SLCARD == slcardCommand

SLSEARCH == \E arg \in Scores : slsearchCommand(arg)

\* The bounds of SLRANGE: "-", "+", and each score bare, after "(" and after "[".
RangeArgs ==
    {<<45>>, <<43>>} \cup Scores \cup {<<40>> \o s : s \in Scores}
    \cup {<<91>> \o s : s \in Scores}

SLRANGE ==
    \E min \in RangeArgs, max \in RangeArgs : \E garbage \in {0, 1} :
        slrangeCommand(min, max, garbage)

SET == setCommand

Next == SLADD \/ SLREM \/ SLALL \/ SLCARD \/ SLSEARCH \/ SLRANGE \/ SET \/ resetClient

Spec == Init /\ [][Next]_vars

-----------------------------------------------------------------------------
\* What a container holds, read off its level-0 chain.

\* The key holds a skiplist; the key holds a value of another type.
Present(d) == KEY \in DOMAIN d /\ d[KEY].type = "list" /\ d[KEY].encoding = "skiplist"
WrongType(d) == KEY \in DOMAIN d /\ ~Present(d)

\* The nodes of the container on the level-0 chain, in order.
NodesOf(d) == IF Present(d) THEN slChain(d[KEY].ptr, Fwd(d[KEY].ptr, HEADER, 0)) ELSE <<>>

\* The (score, member) byte strings of the nodes, in chain order.
PairsOf(d) ==
    LET nodes == NodesOf(d)
    IN [k \in 1..Len(nodes) |->
          <<ObjectBytes(d[KEY].ptr.node[nodes[k]].score),
            ObjectBytes(d[KEY].ptr.node[nodes[k]].obj)>>]

ContentsOf(d) == LET pairs == PairsOf(d) IN {pairs[k] : k \in 1..Len(pairs)}

RECURSIVE Flatten(_)
Flatten(pairs) == IF pairs = <<>> THEN <<>> ELSE Head(pairs) \o Flatten(Tail(pairs))

\* The composite order on two nodes: by score, then by member.
PairLess(sl, x, y) ==
    \/ slCmp(sl.node[x].score, sl.node[y].score) < 0
    \/ /\ slCmp(sl.node[x].score, sl.node[y].score) = 0
       /\ slCmp(sl.node[x].obj, sl.node[y].obj) < 0

StrictlyAscending(d) ==
    LET nodes == NodesOf(d)
    IN \A k \in 1..(Len(nodes) - 1) : PairLess(d[KEY].ptr, nodes[k], nodes[k + 1])

\* Whether a score lies within a parsed range.
InRange(score, range) ==
    /\ IF range.minex THEN slCmp(score, range.min) > 0 ELSE slCmp(score, range.min) >= 0
    /\ IF range.maxex THEN slCmp(score, range.max) < 0 ELSE slCmp(score, range.max) <= 0

\* The pairs of the container whose score passes the test, in chain order.
PairsWhere(d, Test(_)) ==
    LET nodes == NodesOf(d)
        pairs == PairsOf(d)
        keep == {k \in 1..Len(nodes) : Test(d[KEY].ptr.node[nodes[k]].score)}
        RECURSIVE pick(_)
        pick(k) == IF k > Len(nodes) THEN <<>>
                   ELSE IF k \in keep THEN <<pairs[k]>> \o pick(k + 1)
                   ELSE pick(k + 1)
    IN pick(1)

LastRange == slParseRange(createStringObject(cmd.argv[1]), createStringObject(cmd.argv[2]))

\* Whether the scores on the chain ascend byte-wise too, so that the order the
\* chain is kept in and the order a raw argument is compared in agree.
BytewiseAscending(d) ==
    LET nodes == NodesOf(d)
    IN \A k \in 1..(Len(nodes) - 1) :
          compareStringObjects(d[KEY].ptr.node[nodes[k]].score,
                               d[KEY].ptr.node[nodes[k + 1]].score) <= 0

\* The (score, member) pairs that the arguments of an SLADD name.
ArgPairs(argv) == {<<argv[2 * j - 1], argv[2 * j]>> : j \in 1..(Len(argv) \div 2)}

-----------------------------------------------------------------------------
\* C1: SLRANGE key min max with min below max on a container that holds pairs,
\* when it replies at all, replies with exactly the pairs whose score lies
\* within the bounds (each inclusive unless written with "("), in ascending
\* (score, member) order, whatever the tower heights.
C1_RangeExact ==
    (/\ cmd.name = "SLRANGE"
     /\ NodesOf(db) # <<>>
     /\ LastRange.ok
     /\ slCmp(LastRange.min, LastRange.max) < 0
     /\ reply # <<crashed>>) =>
        LET InBounds(score) == InRange(score, LastRange)
        IN /\ reply = <<BulkReply(Flatten(PairsWhere(db, InBounds)))>>
           /\ StrictlyAscending(db)

\* C2: SLSEARCH key v replies empty when no node has score v, and otherwise
\* with every pair whose score equals v, from the first node of the class on,
\* in ascending member order.
C2_SearchWholeClass ==
    (cmd.name = "SLSEARCH" /\ ~WrongType(db)) =>
        LET SameScore(score) == ObjectBytes(score) = cmd.argv[1]
        IN /\ reply = <<BulkReply(Flatten(PairsWhere(db, SameScore)))>>
           /\ StrictlyAscending(db)

\* C3: the integer SLADD replies with is the number of newly added pairs, the
\* cardinality after the command minus the cardinality before it; a pair that
\* was already present adds 0.
C3_AddedCount ==
    [][(cmd'.name = "SLADD" /\ reply' # <<syntaxerr>> /\ ~WrongType(db)) =>
         /\ reply' = <<LongLongReply(Cardinality(ArgPairs(cmd'.argv) \ ContentsOf(db)))>>
         /\ reply' = <<LongLongReply(Len(NodesOf(db')) - Len(NodesOf(db)))>>]_vars

\* C4: SLADD key s m is idempotent: the first call of an absent pair replies 1
\* and leaves the pair in the container, and a call for a pair that is in the
\* container replies 0 and leaves contents and cardinality as they were.
C4_AddIdempotent ==
    [][(cmd'.name = "SLADD" /\ Len(cmd'.argv) = 2 /\ ~WrongType(db)) =>
         IF <<cmd'.argv[1], cmd'.argv[2]>> \in ContentsOf(db)
         THEN /\ reply' = <<LongLongReply(0)>>
              /\ PairsOf(db') = PairsOf(db)
         ELSE /\ reply' = <<LongLongReply(1)>>
              /\ ContentsOf(db') = ContentsOf(db) \cup {<<cmd'.argv[1], cmd'.argv[2]>>}
              /\ Len(NodesOf(db')) = Len(NodesOf(db)) + 1]_vars

\* C5: for every n >= 1, SLREM key s1 ... sn on a container that holds pairs is
\* accepted, removes every node whose score is one of the scores given, and
\* replies with the number of nodes removed.
C5_RemAllGiven ==
    [][(cmd'.name = "SLREM" /\ Len(cmd'.argv) >= 1 /\ NodesOf(db) # <<>>) =>
         LET Given(score) == \E i \in 1..Len(cmd'.argv) : ObjectBytes(score) = cmd'.argv[i]
             Other(score) == ~Given(score)
         IN /\ reply' = <<LongLongReply(Len(PairsWhere(db, Given)))>>
            /\ PairsOf(db') = PairsWhere(db, Other)]_vars

\* C6: the skiplist refines a sorted set of pairs: an accepted SLADD adds its
\* pairs to the set, an accepted SLREM takes the pairs with the given scores out
\* of it, and SLALL replies with the set, each pair once, in ascending
\* (score, member) order.
C6_RefinesSortedSet ==
    [][/\ (cmd'.name = "SLADD" /\ reply' # <<syntaxerr>> /\ ~WrongType(db)) =>
            ContentsOf(db') = ContentsOf(db) \cup ArgPairs(cmd'.argv)
       /\ (cmd'.name = "SLREM" /\ reply' # <<syntaxerr>>) =>
            ContentsOf(db') =
                {p \in ContentsOf(db) : \A i \in 1..Len(cmd'.argv) : p[1] # cmd'.argv[i]}
       /\ cmd'.name = "SLALL" =>
            /\ reply' = <<BulkReply(Flatten(PairsOf(db')))>>
            /\ Cardinality(ContentsOf(db')) = Len(PairsOf(db'))
            /\ StrictlyAscending(db')]_vars

\* C7: in every reachable skiplist the level-0 forward chain is strictly
\* increasing under the composite (score, member) comparison, so no two nodes
\* carry the same pair.
C7_ChainStrictlyOrdered ==
    Present(db) =>
        /\ StrictlyAscending(db)
        /\ Cardinality(ContentsOf(db)) = Len(NodesOf(db))

\* C8: for every container in the key table, SLRANGE key - + replies with the
\* sequence SLALL key replies with.
C8_FullRangeIsAll ==
    (cmd.name = "SLRANGE" /\ cmd.argv = <<<<45>>, <<43>>>> /\ Present(db)) =>
        reply = <<slallReply(lookupKey(db, KEY))>>

\* C9: SLRANGE key [v [v on a container that holds pairs, with scores that
\* ascend byte-wise as well, replies with exactly the pairs whose score equals
\* v, whether or not some node has score v.
C9_InclusiveEqualBounds ==
    (/\ cmd.name = "SLRANGE"
     /\ NodesOf(db) # <<>>
     /\ BytewiseAscending(db)
     /\ \E v \in Scores : cmd.argv = <<<<91>> \o v, <<91>> \o v>>) =>
        LET SameScore(score) == <<91>> \o ObjectBytes(score) = cmd.argv[1]
        IN reply = <<BulkReply(Flatten(PairsWhere(db, SameScore)))>>

\* C10: SLRANGE key (v v replies with the empty multi-reply when the container
\* holds a node of score v, whatever nodes lie below and above it.
C10_ExclusiveEqualBounds ==
    (/\ cmd.name = "SLRANGE"
     /\ \E v \in Scores :
           /\ cmd.argv = <<<<40>> \o v, v>>
           /\ \E k \in 1..Len(PairsOf(db)) : PairsOf(db)[k][1] = v) =>
        reply = <<emptymultibulk>>

-----------------------------------------------------------------------------
\* The cardinality SLCARD key reports: 0 for a key that does not exist.
CardOf(d) == IF Present(d) THEN d[KEY].ptr.length ELSE 0

\* Whether some node of the container has the score with these bytes.
HasScore(d, s) == \E k \in 1..Len(PairsOf(d)) : PairsOf(d)[k][1] = s

\* The skiplist SLADD key s m leaves (created when the key is absent), and the
\* one SLREM key s then leaves.
AfterAdd(d, s, m, level) ==
    sladdLoop([sl |-> IF Present(d) THEN d[KEY].ptr ELSE slCreate, added |-> 0],
              <<s, m>>, <<level>>, 0, 1).sl

AfterAddRem(d, s, m, level) ==
    slremLoop([sl |-> AfterAdd(d, s, m, level), deleted |-> 0, stop |-> FALSE],
              <<s>>, 0, 1).sl

\* C11: after SLADD key s m and then SLREM key s, SLCARD key equals the
\* cardinality before the SLADD if and only if no node had score s before it.
C11_AddRemCard ==
    (Running /\ ~WrongType(db) /\ CardOf(db) < MaxNodes) =>
        \A s \in Scores, m \in Members, level \in slRandomLevel :
            (AfterAddRem(db, s, m, level).length = CardOf(db)) <=> ~HasScore(db, s)

\* The six commands of the skiplist type.
SkiplistCommands == {"SLADD", "SLREM", "SLALL", "SLRANGE", "SLSEARCH", "SLCARD"}

\* C12: each of the six commands, on a key that holds a value that is no
\* skiplist, replies with the wrong-type error and with nothing else (a command
\* whose arguments are not well formed aside).
C12_WrongTypeRejected ==
    (/\ cmd.name \in SkiplistCommands
     /\ WrongType(db)
     /\ reply # <<syntaxerr>>
     /\ reply # <<rangeerr>>) =>
        reply = <<wrongtypeerr>>

\* C13: every command that the server survives sends one reply, and when that
\* reply is an error or the empty multi-reply the key table is as it was; once
\* SLADD has sent an error it sends nothing more.
C13_NoPartialFailure ==
    [][(cmd'.name \in SkiplistCommands /\ ~Crashed(reply')) =>
         /\ Len(reply') = 1
         /\ (reply'[1].type = "error" \/ reply'[1] = emptymultibulk) => db' = db]_vars

\* C14: the length field equals the number of nodes on the level-0 chain, and
\* SLCARD key replies with that number, 0 for a key that does not exist.
C14_LengthIsChainLength ==
    /\ Present(db) => db[KEY].ptr.length = Len(NodesOf(db))
    /\ (cmd.name = "SLCARD" /\ ~WrongType(db)) => reply = <<DoubleReply(Len(NodesOf(db)))>>

\* SLCARD has replied 2 for a container of two nodes.
C14_Witness ==
    /\ cmd.name = "SLCARD"
    /\ Present(db)
    /\ Len(NodesOf(db)) = 2
    /\ reply = <<DoubleReply(2)>>

-----------------------------------------------------------------------------
\* The skiplists the mutating primitives leave when applied to a skiplist.

\* slDeleteScore, lines 477-483: the skiplist after each of its removals.
RECURSIVE slDeleteScoreSteps(_, _, _, _)
slDeleteScoreSteps(sl, x, score, update) ==
    IF x # NULL /\ slCmp(score, sl.node[x].score) = 0
    THEN LET next == slFreeNode(slDeleteNode(sl, x, update), x)
         IN <<next>> \o slDeleteScoreSteps(next, Fwd(sl, x, 0), score, update)
    ELSE <<>>

\* The removals of slDeleteScore(sl, score), the score as SLREM passes it.
RemovalsOf(sl, s) ==
    LET score == createStringObject(s)
        update == slDeleteScoreUpdate(sl, HEADER, sl.level - 1, score,
                                      [i \in Levels |-> NULL])
    IN slDeleteScoreSteps(sl, Fwd(sl, update[0], 0), score, update)

\* The skiplist the key holds, the one SLADD creates when the key is absent.
ContainerOf(d) == IF Present(d) THEN d[KEY].ptr ELSE slCreate

\* After slInsert of any pair with any height, after slDelete of any pair, and
\* after each removal of slDeleteScore of any score.
Inserted(sl) ==
    IF sl.length >= MaxNodes THEN {}
    ELSE {slInsert(sl, tryObjectEncoding(createStringObject(s)),
                   tryObjectEncoding(createStringObject(m)), level) :
             s \in Scores, m \in Members, level \in slRandomLevel}

Deleted(sl) ==
    {slDelete(sl, tryObjectEncoding(createStringObject(s)),
              tryObjectEncoding(createStringObject(m))).sl :
        s \in Scores, m \in Members}

Removed(sl) ==
    UNION {{RemovalsOf(sl, s)[k] : k \in 1..Len(RemovalsOf(sl, s))} : s \in Scores}

Mutated(sl) == Inserted(sl) \cup Deleted(sl) \cup Removed(sl)

\* The nodes that following forward[i] from x visits; the walk ends at a null
\* pointer, and also at a freed slot or a node too short to have a level i.
RECURSIVE LevelChain(_, _, _, _)
LevelChain(sl, x, i, fuel) ==
    IF x = NULL \/ fuel = 0 THEN <<>>
    ELSE IF i \notin DOMAIN sl.node[x].forward THEN <<x>>
    ELSE <<x>> \o LevelChain(sl, sl.node[x].forward[i], i, fuel - 1)

ChainAt(sl, i) == LevelChain(sl, sl.node[HEADER].forward[i], i, MaxNodes + 1)

\* backward is the reverse of the level-0 chain, and tail its last node.
BackwardReversesChain(sl) ==
    LET nodes == ChainAt(sl, 0)
    IN /\ Len(nodes) <= MaxNodes
       /\ \A k \in 1..Len(nodes) :
             sl.node[nodes[k]].backward = IF k = 1 THEN NULL ELSE nodes[k - 1]
       /\ sl.tail = IF nodes = <<>> THEN NULL ELSE nodes[Len(nodes)]
       /\ sl.node[HEADER].backward = NULL

\* C15: after every slInsert, slDelete and removal of slDeleteScore, as in every
\* container between commands, the backward pointers are the reverse of the
\* level-0 chain and tail is its last node, null if and only if it is empty.
C15_BackwardAndTail ==
    (Running /\ ~WrongType(db)) =>
        /\ BackwardReversesChain(ContainerOf(db))
        /\ \A sl \in Mutated(ContainerOf(db)) : BackwardReversesChain(sl)

\* A container of three nodes, on two levels, from which one slDeleteScore
\* removes two nodes in a row.
C15_Witness ==
    /\ Running
    /\ Present(db)
    /\ db[KEY].ptr.level = 2
    /\ db[KEY].ptr.length = 3
    /\ \E s \in Scores : Len(RemovalsOf(db[KEY].ptr, s)) = 2

\* level is the larger of 1 and the greatest h with header.forward[h - 1] set.
LevelMatchesHeader(sl) ==
    LET used == {h \in 1..MaxLevel : sl.node[HEADER].forward[h - 1] # NULL}
    IN sl.level = IF used = {} THEN 1 ELSE CHOOSE h \in used : \A g \in used : g <= h

\* C16: after every slInsert, slDelete and removal of slDeleteScore, as in every
\* container between commands, level is the larger of 1 and the greatest h such
\* that header.forward[h - 1] is not null.
C16_LevelMatchesHeader ==
    (Running /\ ~WrongType(db)) =>
        /\ LevelMatchesHeader(ContainerOf(db))
        /\ \A sl \in Mutated(ContainerOf(db)) : LevelMatchesHeader(sl)

\* A container whose only node of height 2 has a score of its own, next to a
\* node of height 1: removing that score brings level down from 2 to 1.
C16_Witness ==
    /\ Running
    /\ Present(db)
    /\ db[KEY].ptr.level = 2
    /\ \E s \in Scores :
          /\ Len(RemovalsOf(db[KEY].ptr, s)) = 1
          /\ RemovalsOf(db[KEY].ptr, s)[1].level = 1
          /\ RemovalsOf(db[KEY].ptr, s)[1].length >= 1

\* The chain of level i holds the nodes of the level-0 chain that are high
\* enough to have a level i, in the order of the level-0 chain, and no other
\* node: no freed slot, and no node twice.
LevelsAreSubsequences(sl) ==
    LET chain == ChainAt(sl, 0)
    IN /\ Len(chain) <= MaxNodes
       /\ \A k \in 1..Len(chain) : sl.node[chain[k]] # FreeSlot
       /\ \A i \in Levels :
             LET HasLevel(x) == i \in DOMAIN sl.node[x].forward
             IN ChainAt(sl, i) = SelectSeq(chain, HasLevel)

\* C17: after every slInsert, slDelete and removal of slDeleteScore, as in every
\* container between commands, the chain of every level is a subsequence of the
\* level-0 chain, a node of height h is on the levels 0..h-1 and on no other,
\* and no forward pointer leads to a freed node.
C17_LevelsAreSubsequences ==
    (Running /\ ~WrongType(db)) =>
        /\ LevelsAreSubsequences(ContainerOf(db))
        /\ \A sl \in Mutated(ContainerOf(db)) : LevelsAreSubsequences(sl)

\* A container from which one slDeleteScore removes two nodes in a row, the
\* second of them of height 2, with one update vector.
C17_Witness ==
    /\ Running
    /\ Present(db)
    /\ db[KEY].ptr.length = 3
    /\ \E s \in Scores :
          /\ Len(RemovalsOf(db[KEY].ptr, s)) = 2
          /\ RemovalsOf(db[KEY].ptr, s)[1].level = 2
          /\ RemovalsOf(db[KEY].ptr, s)[2].level = 1

-----------------------------------------------------------------------------
\* The ranges SLRANGE can parse from its arguments.
Ranges ==
    {r \in {slParseRange(createStringObject(min), createStringObject(max)) :
               min \in RangeArgs, max \in RangeArgs} : r.ok}

\* The first node of the chain that passes the test, NULL when none does.
FirstNode(sl, Test(_)) ==
    LET chain == ChainAt(sl, 0)
        hits == {k \in 1..Len(chain) : Test(chain[k])}
    IN IF hits = {} THEN NULL ELSE chain[CHOOSE k \in hits : \A j \in hits : k <= j]

\* The last node of the chain that passes the test, NULL when none does.
LastNode(sl, Test(_)) ==
    LET chain == ChainAt(sl, 0)
        hits == {k \in 1..Len(chain) : Test(chain[k])}
    IN IF hits = {} THEN NULL ELSE chain[CHOOSE k \in hits : \A j \in hits : k >= j]

\* The low end of a range: the first node at or above min (above it when min is
\* exclusive), NULL when the first node of the list is above max.
LowEndOf(sl, range) ==
    LET AboveMin(x) == IF range.minex THEN slCmp(sl.node[x].score, range.min) > 0
                       ELSE slCmp(sl.node[x].score, range.min) >= 0
    IN IF slCmp(sl.node[Fwd(sl, HEADER, 0)].score, range.max) > 0 THEN NULL
       ELSE FirstNode(sl, AboveMin)

\* C18: on a list that holds nodes, with scores that ascend byte-wise as well,
\* slRangeLowEnd returns the first node at or above range.min (above it when
\* min is exclusive), null when there is none or when the first node is above
\* range.max, whatever the unassigned found-exact flag holds.
C18_LowEnd ==
    (Running /\ NodesOf(db) # <<>> /\ BytewiseAscending(db)) =>
        \A range \in Ranges, garbage \in {0, 1} :
            slRangeLowEnd(db[KEY].ptr, range, garbage) = LowEndOf(db[KEY].ptr, range)

\* The high end of a range: the last node at or below max (below it when max is
\* exclusive).
HighEndOf(sl, range) ==
    LET BelowMax(x) == IF range.maxex THEN slCmp(sl.node[x].score, range.max) < 0
                       ELSE slCmp(sl.node[x].score, range.max) <= 0
    IN LastNode(sl, BelowMax)

\* C19: on a list that holds nodes, with scores that ascend byte-wise as well,
\* slRangeHighEnd returns the last node at or below range.max (below it when
\* max is exclusive), so a node whose score does not exceed range.max, and null
\* when no node qualifies.
C19_HighEnd ==
    (Running /\ NodesOf(db) # <<>> /\ BytewiseAscending(db)) =>
        \A range \in Ranges :
            slRangeHighEnd(db[KEY].ptr, range) = HighEndOf(db[KEY].ptr, range)

-----------------------------------------------------------------------------
\* slCmp on its own: three values that SLADD can store, drawn at the start, and
\* one step that compares them.

\* Bytes a client can send as a score or member: "2", "10" and "-3" become
\* integer-encoded, "1a" and "b" stay strings.
CmpBytes == {B2, B10, <<45, 51>>, <<49, 97>>, Bb}

\* The value SLADD stores for an argument, lines 522-523.
StoredValue(s) == tryObjectEncoding(createStringObject(s))

InitCmp ==
    /\ db = <<>>
    /\ cmd \in {[name |-> "slCmp", argv |-> <<a, b, c>>] :
                   a \in CmpBytes, b \in CmpBytes, c \in CmpBytes}
    /\ reply = <<>>

\* slCmp(a, b), slCmp(b, a), slCmp(b, c) and slCmp(a, c).
slCmpCall ==
    /\ reply = <<>>
    /\ reply' = <<slCmp(StoredValue(cmd.argv[1]), StoredValue(cmd.argv[2])),
                  slCmp(StoredValue(cmd.argv[2]), StoredValue(cmd.argv[1])),
                  slCmp(StoredValue(cmd.argv[2]), StoredValue(cmd.argv[3])),
                  slCmp(StoredValue(cmd.argv[1]), StoredValue(cmd.argv[3]))>>
    /\ UNCHANGED <<db, cmd>>

NextCmp == slCmpCall

SpecCmp == InitCmp /\ [][NextCmp]_vars

Sign(n) == IF n < 0 THEN -1 ELSE IF n > 0 THEN 1 ELSE 0

\* C20: slCmp is a total order on the values SLADD can store: the sign of
\* slCmp(a, b) is the opposite of that of slCmp(b, a), slCmp(a, b) < 0 and
\* slCmp(b, c) < 0 give slCmp(a, c) < 0, and slCmp(a, b) is 0 only for the
\* same value.
C20_TotalOrder ==
    reply # <<>> =>
        /\ Sign(reply[1]) = 0 - Sign(reply[2])
        /\ (reply[1] < 0 /\ reply[3] < 0) => reply[4] < 0
        /\ reply[1] = 0 => cmd.argv[1] = cmd.argv[2]

-----------------------------------------------------------------------------
\* slCmp on integer-encoded values over the whole range of a long, lines
\* 206-217. The long is scaled down with the int (a 20-bit long over the
\* 16-bit int of INT_MODULUS).

LONG_MODULUS == 1048576
LONG_MIN == 0 - (LONG_MODULUS \div 2)
LONG_MAX == (LONG_MODULUS \div 2) - 1
INT_MIN == 0 - (INT_MODULUS \div 2)
INT_MAX == (INT_MODULUS \div 2) - 1

\* Values at the edges of int and long and around zero.
LongSamples ==
    {LONG_MIN, 0 - INT_MODULUS, INT_MIN - 1, INT_MIN, -1, 0, 1, INT_MAX,
     INT_MAX + 1, INT_MODULUS, LONG_MAX}

InLong(n) == LONG_MIN <= n /\ n <= LONG_MAX

InitLong ==
    /\ db = <<>>
    /\ cmd \in {[name |-> "slCmp", argv |-> <<a, b>>] :
                   a \in LongSamples, b \in LongSamples}
    /\ reply = <<>>

\* slCmp(a, b) of two integer-encoded values. A difference outside the long
\* is a signed overflow at line 211: any int may come back, one of each sign
\* stands for them.
slCmpLong ==
    /\ reply = <<>>
    /\ IF InLong(cmd.argv[1] - cmd.argv[2])
       THEN reply' = <<slCmp(IntObject(cmd.argv[1]), IntObject(cmd.argv[2]))>>
       ELSE \E r \in {-1, 0, 1} : reply' = <<r>>
    /\ UNCHANGED <<db, cmd>>

NextLong == slCmpLong

SpecLong == InitLong /\ [][NextLong]_vars

\* C21: for two integer-encoded values a and b of the long range whose
\* difference is itself a long, slCmp(a, b) is negative when a < b, zero
\* only when a = b and positive when a > b.
C21_SignOfDifference ==
    (reply # <<>> /\ InLong(cmd.argv[1] - cmd.argv[2])) =>
        Sign(reply[1]) = Sign(cmd.argv[1] - cmd.argv[2])

-----------------------------------------------------------------------------
\* slDelete against the position slInsert gave a pair.

\* The key table with slDelete(s, m) applied to its container, the arguments
\* encoded as SLADD passes them at line 525, and the value slDelete returns.
DeleteOf(d, s, m) == slDelete(d[KEY].ptr, StoredValue(s), StoredValue(m))
AfterDelete(d, s, m) == [d EXCEPT ![KEY].ptr = DeleteOf(d, s, m).sl]

\* A sequence without its k-th element.
Without(seq, k) == SubSeq(seq, 1, k - 1) \o SubSeq(seq, k + 1, Len(seq))

\* C22: on every container, for every pair (s, m), slDelete(s, m) returns 1
\* and removes exactly one node carrying (s, m) when the container holds such
\* a node, and returns 0 and leaves the container as it was otherwise.
C22_DeleteFindsInserted ==
    Present(db) =>
        \A s \in Scores, m \in Members :
            IF <<s, m>> \in ContentsOf(db)
            THEN /\ DeleteOf(db, s, m).ret = 1
                 /\ \E k \in 1..Len(PairsOf(db)) :
                       /\ PairsOf(db)[k] = <<s, m>>
                       /\ PairsOf(AfterDelete(db, s, m)) = Without(PairsOf(db), k)
            ELSE /\ DeleteOf(db, s, m).ret = 0
                 /\ DeleteOf(db, s, m).sl = db[KEY].ptr

\* C23: every skiplist container in the key table has length >= 1, a first
\* node and a tail, so that slRangeSmallestNode (line 272) and
\* slRangeLargestNode (line 335) read the score of a node.
C23_ContainersNonEmpty ==
    Present(db) =>
        /\ db[KEY].ptr.length >= 1
        /\ Fwd(db[KEY].ptr, HEADER, 0) # NULL
        /\ db[KEY].ptr.tail # NULL


====
